---- MODULE Spec2Model ----
(***************************************************************************)
(* Ant Colony Optimisation for the bank (knapsack/tour) problem.           *)
(* Model of src/graph/mod.rs (Bag, Tau, Graph), src/ant/mod.rs (Colony,    *)
(* Ant) and src/algorithm/mod.rs (run).                                    *)
(*                                                                         *)
(* f64 values are modelled exactly as non-negative rationals <<n, d>> in   *)
(* lowest terms; the f64 value NaN (0.0 / 0.0) is the pair <<0, 0>> and    *)
(* the f64 value inf (x / 0.0 for x > 0.0) is the pair <<1, 0>>.           *)
(* Rounding is not modelled: sums and products are exact.                  *)
(* Bag indices are 0-based as in the source; tours are sequences of them.  *)
(***************************************************************************)
EXTENDS Integers, Sequences, FiniteSets, TLC

VARIABLES
    colony,      \* struct Colony {graph, ants, best_path, num_of_fitness_evaluations}
    params,      \* the arguments of algorithm::run
    results,     \* the HashMap run returns
    pc,          \* where the caller of the colony stands
    iterations,  \* history: number of completed update_edges calls
    steps,       \* history: number of time_step calls since the last init_ants
    calls,       \* history: number of Colony methods called by a free caller
    call         \* history: the last function called on its own, its arguments
                 \* and what it returned

vars == <<colony, params, results, pc, iterations, steps, calls, call>>

\* no function has been called on its own
NoCall == [fn |-> "none"]

----------------------------------------------------------------------------
(* Bounds of the model *)

\* largest fitness-evaluation budget (fitness_evals) tried
MaxEvals == 3

\* time steps explored in one construction phase (run_tours may never return)
MaxSteps == 4

\* calls a free caller of the Colony makes
MaxCalls == 3

\* writes a caller makes to a Tau on its own
MaxTauCalls == 2

----------------------------------------------------------------------------
(* f64 arithmetic on non-negative values *)

RECURSIVE GCD(_, _)
GCD(a, b) == IF b = 0 THEN a ELSE GCD(b, a % b)

NaN == <<0, 0>>

Inf == <<1, 0>>

IsNaN(x) == x = NaN

\* lowest terms ; n / 0 is inf for n > 0 (GCD(n, 0) = n)
Norm(n, d) ==
    IF n = 0 /\ d = 0 THEN NaN ELSE LET g == GCD(n, d) IN <<n \div g, d \div g>>

F64(n) == <<n, 1>>

Zero == F64(0)

One == F64(1)

F64Add(x, y) ==
    IF IsNaN(x) \/ IsNaN(y) THEN NaN
    ELSE IF x = Inf \/ y = Inf THEN Inf
    ELSE LET g == GCD(x[2], y[2])
         IN  Norm(x[1] * (y[2] \div g) + y[1] * (x[2] \div g), (x[2] \div g) * y[2])

\* common factors are taken out across the two values before multiplying
F64Mul(x, y) ==
    IF IsNaN(x) \/ IsNaN(y) THEN NaN
    ELSE IF x = Inf \/ y = Inf THEN Norm(x[1] * y[1], 0)
    ELSE LET g == GCD(x[1], y[2])
             h == GCD(y[1], x[2])
         IN  Norm((x[1] \div g) * (y[1] \div h), (x[2] \div h) * (y[2] \div g))

\* x / y ; 0.0 / 0.0 and inf / inf are NaN, x / 0.0 is inf for x > 0.0
F64Div(x, y) ==
    IF IsNaN(x) \/ IsNaN(y) THEN NaN
    ELSE IF x = Inf \/ y = Inf \/ y = Zero THEN Norm(x[1] * y[2], x[2] * y[1])
    ELSE F64Mul(x, <<y[2], y[1]>>)

\* x.powf(k) for a whole exponent k >= 0 ; powf(x, 0.0) = 1.0 for every x
RECURSIVE F64Pow(_, _)
F64Pow(x, k) == IF k = 0 THEN One ELSE F64Mul(x, F64Pow(x, k - 1))

\* x <= y on f64 : false whenever an operand is NaN
F64Le(x, y) ==
    /\ ~IsNaN(x)
    /\ ~IsNaN(y)
    /\ IF x = Inf \/ y = Inf THEN y = Inf
       ELSE LET g == GCD(x[2], y[2])
            IN  x[1] * (y[2] \div g) <= y[1] * (x[2] \div g)

----------------------------------------------------------------------------
(* graph/mod.rs : Bag, Tau, Graph *)

\* size of the pheromone matrix and range of the loops of evaporation_edges.
\* The source fixes it at 100; the model scales it down, and the problems tried
\* have fewer bags than the matrix has rows, as the problem files must.
BAG_NUMBER == 4

Cells == 0 .. (BAG_NUMBER - 1)

\* load_data : one Bag per "bag" entry of the problem file
Bag(number, weight, cost, beta) ==
    LET ratio == F64Div(F64(cost), F64(weight))
    IN  [number |-> number, weight |-> weight, cost |-> cost,
         ratio |-> ratio, h |-> F64Pow(ratio, beta)]

\* the problem files tried: van capacity and <<weight, value>> of each bag
BankProblems ==
    { [capacity |-> 10, bags |-> << <<5, 10>>, <<5, 10>>, <<11, 100>> >>],
      [capacity |-> 8,  bags |-> << <<4, 3>>, <<4, 5>>, <<4, 8>> >>],
      [capacity |-> 8,  bags |-> << <<2, 2>>, <<2, 3>>, <<4, 8>> >>] }

load_data(problem, beta) ==
    [k \in 0 .. (Len(problem.bags) - 1) |->
        Bag(k, problem.bags[k + 1][1], problem.bags[k + 1][2], beta)]

\* Tau::new
TauNew == [i \in Cells |-> [j \in Cells |-> Zero]]

\* a write to the cell as addressed, whatever the order of the two ids
set_edge_as_addressed(matrix, bag_i, bag_j, value) ==
    [matrix EXCEPT ![bag_i][bag_j] = value]

\* Tau::set_edge
set_edge(matrix, bag_i, bag_j, value) ==
    IF bag_i < bag_j
    THEN [matrix EXCEPT ![bag_i][bag_j] = value]
    ELSE [matrix EXCEPT ![bag_j][bag_i] = value]

\* a read of the cell as addressed, whatever the order of the two ids
get_edge_as_addressed(matrix, bag_i, bag_j) == matrix[bag_i][bag_j]

\* Tau::get_edge
get_edge(matrix, bag_i, bag_j) ==
    IF bag_i < bag_j THEN matrix[bag_i][bag_j] ELSE matrix[bag_j][bag_i]

\* add_to_edge that takes the value away from the edge
subtract_from_edge(matrix, bag_i, bag_j, value) ==
    IF bag_i < bag_j
    THEN [matrix EXCEPT ![bag_i][bag_j] = F64Add(@, <<0 - value[1], value[2]>>)]
    ELSE [matrix EXCEPT ![bag_j][bag_i] = F64Add(@, <<0 - value[1], value[2]>>)]

\* Tau::add_to_edge
add_to_edge(matrix, bag_i, bag_j, value) ==
    IF bag_i < bag_j
    THEN [matrix EXCEPT ![bag_i][bag_j] = F64Add(@, value)]
    ELSE [matrix EXCEPT ![bag_j][bag_i] = F64Add(@, value)]

\* Graph::construct_graph
construct_graph(problem, beta) ==
    [max_weight |-> problem.capacity,
     nodes      |-> Len(problem.bags),
     graph      |-> load_data(problem, beta),
     tau        |-> TauNew]

\* the values rng.gen_range(0.1..1.0) is drawn from
TauInitRange == { <<1, 4>>, <<1, 2>> }

\* the ordered pairs (i, j) the loops of initialize_tau visit, in loop order
RECURSIVE initialize_tau_from(_, _, _, _)
initialize_tau_from(matrix, nodes, k, rnd) ==
    IF k >= nodes * nodes THEN matrix
    ELSE LET i == k \div nodes
             j == k % nodes
         IN  initialize_tau_from(
                 IF i # j THEN set_edge(matrix, i, j, rnd[<<i, j>>]) ELSE matrix,
                 nodes, k + 1, rnd)

\* initialize_tau whose loops stop one bag short
initialize_tau_short(g, rnd) ==
    [g EXCEPT !.tau = initialize_tau_from(g.tau, g.nodes - 1, 0, rnd)]

\* Graph::initialize_tau ; rnd[<<i, j>>] is the value drawn for the write (i, j)
initialize_tau(g, rnd) ==
    [g EXCEPT !.tau = initialize_tau_from(g.tau, g.nodes, 0, rnd)]

\* get_availible_bags without the test on the visited bags
get_availible_bags_visited_too(g, current_bag, visited_bags, allowed_weight) ==
    LET keep(k) == /\ k # current_bag
                   /\ g.graph[k].weight <= allowed_weight
    IN  SelectSeq([p \in 1 .. g.nodes |-> p - 1], keep)

\* get_availible_bags that wants a bag strictly lighter than the budget
get_availible_bags_lighter(g, current_bag, visited_bags, allowed_weight) ==
    LET keep(k) == /\ k # current_bag
                   /\ \A p \in 1 .. Len(visited_bags) : visited_bags[p] # k
                   /\ g.graph[k].weight < allowed_weight
    IN  SelectSeq([p \in 1 .. g.nodes |-> p - 1], keep)

\* Graph::get_availible_bags : the indices, in increasing order, of the bags
\* that are not the current bag, not visited and light enough
get_availible_bags(g, current_bag, visited_bags, allowed_weight) ==
    LET keep(k) == /\ k # current_bag
                   /\ \A p \in 1 .. Len(visited_bags) : visited_bags[p] # k
                   /\ g.graph[k].weight <= allowed_weight
    IN  SelectSeq([p \in 1 .. g.nodes |-> p - 1], keep)

\* tau_ij^alpha * h_j : the weight of the edge to one candidate
edge_weight(g, bag_i, bag, alpha) ==
    F64Mul(F64Pow(get_edge(g.tau, bag_i, bag), alpha), g.graph[bag].h)

\* Iterator::sum over a Vec<f64>, from position p on
RECURSIVE f64_sum(_, _, _)
f64_sum(values, p, acc) ==
    IF p > Len(values) THEN acc ELSE f64_sum(values, p + 1, F64Add(acc, values[p]))

\* Graph::calculate_edge_probability
calculate_edge_probability(g, bag_i, bag_j, availible_bags, alpha) ==
    F64Div(edge_weight(g, bag_i, bag_j, alpha),
           f64_sum([p \in 1 .. Len(availible_bags) |->
                       edge_weight(g, bag_i, availible_bags[p], alpha)], 1, Zero))

\* a scan that yields each probability as it is, without the running sum
cumulative_not_running(probabilities, p, cum_sum, out) == probabilities

\* Iterator::scan with a running sum, from position p on
RECURSIVE cumulative(_, _, _, _)
cumulative(probabilities, p, cum_sum, out) ==
    IF p > Len(probabilities) THEN out
    ELSE cumulative(probabilities, p + 1, F64Add(cum_sum, probabilities[p]),
                    Append(out, F64Add(cum_sum, probabilities[p])))

\* Graph::create_selection_wheel : the running sums of the probabilities
create_selection_wheel(g, bag_i, availible_bags, alpha) ==
    cumulative([p \in 1 .. Len(availible_bags) |->
                   calculate_edge_probability(g, bag_i, availible_bags[p],
                                              availible_bags, alpha)],
               1, Zero, << >>)

\* Option<usize>
None == << >>

Some(x) == <<x>>

\* zip(wheel).find(choice <= rank) : the first bag whose rank reaches the choice
RECURSIVE find_on_wheel(_, _, _, _)
find_on_wheel(availible_bags, wheel, choice, p) ==
    IF p > Len(availible_bags) THEN None
    ELSE IF F64Le(choice, wheel[p]) THEN Some(availible_bags[p])
    ELSE find_on_wheel(availible_bags, wheel, choice, p + 1)

\* a select_path that spins the wheel even when only one bag is left
select_on_wheel_always(availible_bags, wheel, choice) ==
    find_on_wheel(availible_bags, wheel, choice, 1)

\* the body of select_path once the wheel is known (the wheel is not built
\* when only one bag is left)
select_on_wheel(availible_bags, wheel, choice) ==
    IF Len(availible_bags) = 1
    THEN Some(availible_bags[1])
    ELSE find_on_wheel(availible_bags, wheel, choice, 1)

\* Graph::select_path ; choice is the value drawn by gen_range(0.0..=1.0)
select_path(g, bag_i, availible_bags, alpha, choice) ==
    select_on_wheel(availible_bags,
                    create_selection_wheel(g, bag_i, availible_bags, alpha), choice)

\* the draws of gen_range(0.0..=1.0) tried on a wheel: the ends of the range,
\* its middle, and every boundary of the wheel (a draw strictly inside a slot
\* selects the same bag as the draw on the slot's upper boundary)
Choices(wheel) ==
    {Zero, <<1, 2>>, One}
    \cup {wheel[p] : p \in {q \in 1 .. Len(wheel) : F64Le(wheel[q], One)}}

\* the (i, j) the loops of evaporation_edges visit, in loop order
RECURSIVE evaporation_edges_from(_, _, _)
evaporation_edges_from(matrix, k, evaporation_rate) ==
    IF k >= BAG_NUMBER * BAG_NUMBER THEN matrix
    ELSE LET i == k \div BAG_NUMBER
             j == k % BAG_NUMBER
             value == get_edge(matrix, i, j)
         IN  evaporation_edges_from(
                 set_edge(matrix, i, j, F64Mul(value, evaporation_rate)),
                 k + 1, evaporation_rate)

\* Graph::evaporation_edges
evaporation_edges(g, evaporation_rate) ==
    [g EXCEPT !.tau = evaporation_edges_from(g.tau, 0, evaporation_rate)]

\* a deposit that leaves p_rate out
deposit_phero_without_rate(g, edge, tour_value, tour_weight, p_rate) ==
    LET value == F64Div(F64(tour_value), F64(tour_weight))
    IN  [g EXCEPT !.tau = add_to_edge(g.tau, edge[1], edge[2], value)]

\* Graph::deposit_phero
deposit_phero(g, edge, tour_value, tour_weight, p_rate) ==
    LET value == F64Div(F64Mul(F64(tour_value), p_rate), F64(tour_weight))
    IN  [g EXCEPT !.tau = add_to_edge(g.tau, edge[1], edge[2], value)]

----------------------------------------------------------------------------
(* ant/mod.rs : Ant *)

\* Ant::birth
birth(bag, g) ==
    [current_bag    |-> bag,
     tour           |-> <<bag>>,
     current_cost   |-> g.graph[bag].cost,
     current_weight |-> g.graph[bag].weight]

\* Ant::calculate_allowed_weight
calculate_allowed_weight(ant, max_allowed_weight) ==
    max_allowed_weight - ant.current_weight

\* the bags an ant can move to: the call update_ant and are_all_tours_finished
\* both make on get_availible_bags
ant_availible_bags(ant, g) ==
    get_availible_bags(g, ant.current_bag, ant.tour,
                       calculate_allowed_weight(ant, g.max_weight))

\* a move that adds the cost of the bag the ant leaves, not of the one it
\* reaches
move_ant_stale_cost(ant, g, new_bag) ==
    IF new_bag # None
    THEN [current_bag    |-> new_bag[1],
          tour           |-> Append(ant.tour, new_bag[1]),
          current_cost   |-> ant.current_cost + g.graph[ant.current_bag].cost,
          current_weight |-> ant.current_weight + g.graph[new_bag[1]].weight]
    ELSE ant

\* the body of update_ant once new_bag is known
move_ant(ant, g, new_bag) ==
    IF new_bag # None
    THEN [current_bag    |-> new_bag[1],
          tour           |-> Append(ant.tour, new_bag[1]),
          current_cost   |-> ant.current_cost + g.graph[new_bag[1]].cost,
          current_weight |-> ant.current_weight + g.graph[new_bag[1]].weight]
    ELSE ant

\* an update_ant that sends an ant with no bag left back to its first bag
update_ant_on_wheel_restless(ant, g, availible_bags, wheel, choice) ==
    IF availible_bags # << >>
    THEN move_ant(ant, g, select_on_wheel(availible_bags, wheel, choice))
    ELSE birth(ant.tour[1], g)

\* the body of update_ant once availible_bags and the wheel are known
update_ant_on_wheel(ant, g, availible_bags, wheel, choice) ==
    IF availible_bags # << >>
    THEN move_ant(ant, g, select_on_wheel(availible_bags, wheel, choice))
    ELSE ant

\* the body of update_ant once availible_bags is known
update_ant_with(ant, g, alpha, choice, availible_bags) ==
    update_ant_on_wheel(ant, g, availible_bags,
        create_selection_wheel(g, ant.current_bag, availible_bags, alpha), choice)

\* Ant::update_ant ; choice is the draw select_path makes if it spins the wheel
update_ant(ant, g, alpha, choice) ==
    update_ant_with(ant, g, alpha, choice, ant_availible_bags(ant, g))

\* the states update_ant can leave the ant in, over the draws on its wheel
outcomes_on_wheel(ant, g, availible_bags, wheel) ==
    { update_ant_on_wheel(ant, g, availible_bags, wheel, choice) :
        choice \in Choices(wheel) }

outcomes_with(ant, g, alpha, availible_bags) ==
    outcomes_on_wheel(ant, g, availible_bags,
        create_selection_wheel(g, ant.current_bag, availible_bags, alpha))

\* the states one update_ant call can leave the ant in, over the draws
update_ant_outcomes(ant, g, alpha) ==
    outcomes_with(ant, g, alpha, ant_availible_bags(ant, g))

\* sum of a field of the bags of a tour
RECURSIVE tour_sum(_, _, _)
tour_sum(tour, g, field) ==
    IF tour = << >> THEN 0
    ELSE g.graph[Head(tour)][field] + tour_sum(Tail(tour), g, field)

\* Ant::calculate_tour_cost
calculate_tour_cost(ant, g) == tour_sum(ant.tour, g, "cost")

\* Ant::calcluate_tour_weight
calcluate_tour_weight(ant, g) == tour_sum(ant.tour, g, "weight")

----------------------------------------------------------------------------
(* ant/mod.rs : Colony *)

\* Colony::new ; rnd are the draws of initialize_tau
ColonyNew(g, rnd) ==
    [graph                      |-> initialize_tau(g, rnd),
     ants                       |-> << >>,
     best_path                  |-> << << >>, 0, 0 >>,
     num_of_fitness_evaluations |-> 0]

\* init_ants that pushes the new ants behind the ants it finds
init_ants_keeping(c, num_of_ants, bags) ==
    [c EXCEPT !.ants = @ \o [k \in 1 .. num_of_ants |-> birth(bags[k], c.graph)]]

\* Colony::init_ants ; bags[k] is the k-th draw of gen_range(0..nodes)
init_ants(c, num_of_ants, bags) ==
    [c EXCEPT !.ants = [k \in 1 .. num_of_ants |-> birth(bags[k], c.graph)]]

\* the draws init_ants can make
StartBags(c, num_of_ants) == [1 .. num_of_ants -> 0 .. (c.graph.nodes - 1)]

\* are_all_tours_finished that is content with one finished ant
are_all_tours_finished_any(c) ==
    \E k \in 1 .. Len(c.ants) : ant_availible_bags(c.ants[k], c.graph) = << >>

\* Colony::are_all_tours_finished
are_all_tours_finished(c) ==
    ~ \E k \in 1 .. Len(c.ants) : ant_availible_bags(c.ants[k], c.graph) # << >>

\* the populations whose k-th ant is one of outcomes[k]
populations(outcomes) ==
    { next \in [DOMAIN outcomes -> UNION {outcomes[k] : k \in DOMAIN outcomes}] :
        \A k \in DOMAIN outcomes : next[k] \in outcomes[k] }

\* Colony::time_step : the populations one call can leave, over the draws
time_step_outcomes(c, alpha) ==
    populations([k \in 1 .. Len(c.ants) |->
                    update_ant_outcomes(c.ants[k], c.graph, alpha)])

\* index of the ant Iterator::min_by would pick on current_cost
RECURSIVE min_by_cost(_, _, _)
min_by_cost(a, best, k) ==
    IF k > Len(a) THEN best
    ELSE min_by_cost(a, IF a[best].current_cost <= a[k].current_cost THEN best ELSE k,
                     k + 1)

\* index of the ant Iterator::max_by picks on current_cost: the last of the
\* ants with the highest cost
RECURSIVE max_by_cost(_, _, _)
max_by_cost(a, best, k) ==
    IF k > Len(a) THEN best
    ELSE max_by_cost(a, IF a[best].current_cost > a[k].current_cost THEN best ELSE k,
                     k + 1)

\* record_best_tour that counts one evaluation for the whole population
record_best_tour_one_evaluation(c, top_ant) ==
    [c EXCEPT !.num_of_fitness_evaluations = @ + 1,
              !.best_path = <<top_ant.tour, top_ant.current_cost,
                              top_ant.current_weight>>]

\* record_best_tour that takes the weight from the first ant of the population
record_best_tour_first_weight(c, top_ant) ==
    [c EXCEPT !.num_of_fitness_evaluations = @ + Len(c.ants),
              !.best_path = <<top_ant.tour, top_ant.current_cost,
                              c.ants[1].current_weight>>]

\* the body of set_best_tour once the top ant is found
record_best_tour(c, top_ant) ==
    [c EXCEPT !.num_of_fitness_evaluations = @ + Len(c.ants),
              !.best_path = <<top_ant.tour, top_ant.current_cost,
                              top_ant.current_weight>>]

\* set_best_tour that counts the evaluations before it looks at the tours
set_best_tour_counts_first(c) ==
    IF ~are_all_tours_finished(c)
    THEN [ret |-> Some("Failed: Ants have not finished their tour"),
          colony |-> [c EXCEPT !.num_of_fitness_evaluations = @ + Len(c.ants)]]
    ELSE [ret |-> None,
          colony |-> [c EXCEPT
              !.num_of_fitness_evaluations = @ + Len(c.ants),
              !.best_path = <<c.ants[max_by_cost(c.ants, 1, 2)].tour,
                              c.ants[max_by_cost(c.ants, 1, 2)].current_cost,
                              c.ants[max_by_cost(c.ants, 1, 2)].current_weight>>]]

\* Colony::set_best_tour : the value returned and the colony it leaves
set_best_tour(c) ==
    IF ~are_all_tours_finished(c)
    THEN [ret |-> Some("Failed: Ants have not finished their tour"), colony |-> c]
    ELSE [ret |-> None,
          colony |-> record_best_tour(c, c.ants[max_by_cost(c.ants, 1, 2)])]

\* the deposits of one ant: deposit_phero on each pair of consecutive bags
RECURSIVE deposit_tour(_, _, _, _, _, _)
deposit_tour(g, tour, p, tour_value, tour_weight, p_rate) ==
    IF p > Len(tour) THEN g
    ELSE deposit_tour(
             deposit_phero(g, <<tour[p - 1], tour[p]>>, tour_value, tour_weight, p_rate),
             tour, p + 1, tour_value, tour_weight, p_rate)

\* the deposits of the ants k, k + 1, ... of the population
RECURSIVE deposit_ants(_, _, _, _)
deposit_ants(g, a, k, p_rate) ==
    IF k > Len(a) THEN g
    ELSE deposit_ants(
             deposit_tour(g, a[k].tour, 2, calculate_tour_cost(a[k], g),
                          calcluate_tour_weight(a[k], g), p_rate),
             a, k + 1, p_rate)

\* the body of update_edges once set_best_tour has returned
update_edges_after(best, evaporation_rate, p_rate) ==
    IF best.ret # None
    THEN [panicked |-> TRUE, colony |-> best.colony]
    ELSE [panicked |-> FALSE,
          colony   |-> [best.colony EXCEPT
              !.graph = deposit_ants(evaporation_edges(@, evaporation_rate),
                                     best.colony.ants, 1, p_rate)]]

\* Colony::update_edges : whether it panicked and the colony it leaves
update_edges(c, evaporation_rate, p_rate) ==
    update_edges_after(set_best_tour(c), evaporation_rate, p_rate)

\* Colony::calculate_total_colony_cost
RECURSIVE calculate_total_colony_cost_from(_, _)
calculate_total_colony_cost_from(a, k) ==
    IF k > Len(a) THEN 0
    ELSE a[k].current_cost + calculate_total_colony_cost_from(a, k + 1)

calculate_total_colony_cost(c) == calculate_total_colony_cost_from(c.ants, 1)

\* an average taken over the bags of the graph instead of the ants
calculate_average_cost_per_bag(c) ==
    F64Div(F64(calculate_total_colony_cost(c)), F64(c.graph.nodes))

\* Colony::calculate_average_cost
calculate_average_cost(c) ==
    F64Div(F64(calculate_total_colony_cost(c)), F64(Len(c.ants)))

----------------------------------------------------------------------------
(* algorithm/mod.rs : run *)

\* the arguments of run that are tried
Alphas == {1}

Betas == {2}

EvaporationRates == { Zero, <<1, 2>> }

\* 2.0 is one of the rates of set_p_rate_params ; a rate of 1.0 would hide
\* the factor
PRates == { F64(2) }

NumsOfAnts == {1, 2}

Params ==
    [alpha : Alphas, beta : Betas, evaporation_rate : EvaporationRates,
     num_of_ants : NumsOfAnts, fitness_evals : 1 .. MaxEvals, p_rate : PRates]

\* the writes of initialize_tau on a graph of the given size
TauWrites(nodes) ==
    {e \in (0 .. (nodes - 1)) \X (0 .. (nodes - 1)) : e[1] # e[2]}

\* init_aco : the colonies it can return
init_aco(problem, num_of_ants, beta) ==
    { init_ants(c, num_of_ants, bags) :
        c \in { ColonyNew(construct_graph(problem, beta), rnd) :
                   rnd \in [TauWrites(Len(problem.bags)) -> TauInitRange] },
        bags \in [1 .. num_of_ants -> 0 .. (Len(problem.bags) - 1)] }

\* f64::to_string : the decimal text of a value.  Display for f64 prints the
\* shortest text that parses back to the same f64, so a text is kept as the
\* value it denotes, marked as text
to_string(x) == [text_of |-> x]

\* HashMap::insert : a value already under the key is replaced
insert(map, key, value) == (key :> value) @@ map

\* the loop condition that goes round once more when the budget is just met
budget_left_inclusive(c, fitness_evals) == c.num_of_fitness_evaluations <= fitness_evals

\* the condition of the while loop of run
budget_left(c, fitness_evals) == c.num_of_fitness_evaluations < fitness_evals

\* run has created the colony and is about to call run_tours
Init ==
    /\ params \in Params
    /\ \E problem \in BankProblems :
           colony \in init_aco(problem, params.num_of_ants, params.beta)
    /\ results = << >>
    /\ pc = "run_tours"
    /\ iterations = 0
    /\ steps = 0
    /\ calls = 0
    /\ call = NoCall

\* run_tours : one pass of its loop, a time_step
TimeStep ==
    /\ pc = "run_tours"
    /\ ~are_all_tours_finished(colony)
    /\ steps < MaxSteps
    /\ \E next \in time_step_outcomes(colony, params.alpha) :
           colony' = [colony EXCEPT !.ants = next]
    /\ steps' = steps + 1
    /\ UNCHANGED <<call, params, results, pc, iterations, calls>>

\* run_tours returns and run calls update_edges ; after the first search run
\* records the initial scores
UpdateEdges ==
    /\ pc = "run_tours"
    /\ are_all_tours_finished(colony)
    /\ \E r \in {update_edges(colony, params.evaporation_rate, params.p_rate)} :
           /\ colony' = r.colony
           /\ IF r.panicked
              THEN /\ pc' = "panicked"
                   /\ UNCHANGED <<results, iterations>>
              ELSE /\ pc' = "loop"
                   /\ iterations' = iterations + 1
                   /\ results' =
                        IF iterations = 0
                        THEN insert(insert(results, "initial_score",
                                           to_string(F64(r.colony.best_path[2]))),
                                    "initial_avg",
                                    to_string(calculate_average_cost(r.colony)))
                        ELSE results
    /\ UNCHANGED <<call, params, steps, calls>>

\* the loop of run goes round: init_ants, then run_tours
NextIteration ==
    /\ pc = "loop"
    /\ budget_left(colony, params.fitness_evals)
    /\ \E bags \in StartBags(colony, params.num_of_ants) :
           colony' = init_ants(colony, params.num_of_ants, bags)
    /\ steps' = 0
    /\ pc' = "run_tours"
    /\ UNCHANGED <<call, params, results, iterations, calls>>

\* the loop of run ends: run records the final scores and returns
Return ==
    /\ pc = "loop"
    /\ ~budget_left(colony, params.fitness_evals)
    /\ results' = insert(insert(results, "final_score",
                                 to_string(F64(colony.best_path[2]))),
                          "final_avg", to_string(calculate_average_cost(colony)))
    /\ pc' = "done"
    /\ UNCHANGED <<call, colony, params, iterations, steps, calls>>

Next == TimeStep \/ UpdateEdges \/ NextIteration \/ Return

Spec == Init /\ [][Next]_vars

----------------------------------------------------------------------------
(* The Colony driven through its public methods by a free caller, who may
   call them in any order *)

InitColony ==
    /\ params \in Params
    /\ params.fitness_evals = MaxEvals
    /\ \E problem \in BankProblems :
           colony \in init_aco(problem, params.num_of_ants, params.beta)
    /\ results = << >>
    /\ pc = "caller"
    /\ iterations = 0
    /\ steps = 0
    /\ calls = 0
    /\ call = NoCall

\* colony.init_ants(num_of_ants)
CallInitAnts ==
    /\ pc = "caller"
    /\ calls < MaxCalls
    /\ \E bags \in StartBags(colony, params.num_of_ants) :
           colony' = init_ants(colony, params.num_of_ants, bags)
    /\ steps' = 0
    /\ calls' = calls + 1
    /\ UNCHANGED <<call, params, results, pc, iterations>>

\* colony.time_step(alpha)
CallTimeStep ==
    /\ pc = "caller"
    /\ calls < MaxCalls
    /\ \E next \in time_step_outcomes(colony, params.alpha) :
           colony' = [colony EXCEPT !.ants = next]
    /\ steps' = steps + 1
    /\ calls' = calls + 1
    /\ UNCHANGED <<call, params, results, pc, iterations>>

\* colony.set_best_tour()
CallSetBestTour ==
    /\ pc = "caller"
    /\ calls < MaxCalls
    /\ colony' = set_best_tour(colony).colony
    /\ calls' = calls + 1
    /\ UNCHANGED <<call, params, results, pc, iterations, steps>>

\* colony.update_edges(evaporation_rate, p_rate) that returns
CallUpdateEdges ==
    /\ pc = "caller"
    /\ calls < MaxCalls
    /\ \E r \in {update_edges(colony, params.evaporation_rate, params.p_rate)} :
           /\ ~r.panicked
           /\ colony' = r.colony
    /\ iterations' = iterations + 1
    /\ calls' = calls + 1
    /\ UNCHANGED <<call, params, results, pc, steps>>

\* colony.update_edges(evaporation_rate, p_rate) that panics: the state is the
\* one at the panic!
CallUpdateEdgesPanic ==
    /\ pc = "caller"
    /\ calls < MaxCalls
    /\ \E r \in {update_edges(colony, params.evaporation_rate, params.p_rate)} :
           /\ r.panicked
           /\ colony' = r.colony
    /\ pc' = "panicked"
    /\ calls' = calls + 1
    /\ UNCHANGED <<call, params, results, iterations, steps>>

NextColony ==
    \/ CallInitAnts
    \/ CallTimeStep
    \/ CallSetBestTour
    \/ CallUpdateEdges
    \/ CallUpdateEdgesPanic

SpecColony == InitColony /\ [][NextColony]_vars

----------------------------------------------------------------------------
(* A Tau on its own, written by a free caller as in test::tau *)

\* the values written and added
TauValues == { <<1, 4>>, <<1, 2>> }

\* let mut tau = Tau::new()
InitTau ==
    /\ colony = [graph |-> [tau |-> TauNew]]
    /\ params = << >>
    /\ results = << >>
    /\ pc = "caller"
    /\ iterations = 0
    /\ steps = 0
    /\ calls = 0
    /\ call = NoCall

\* tau.set_edge(bag_i, bag_j, value)
CallSetEdge ==
    /\ calls < MaxTauCalls
    /\ \E bag_i \in Cells, bag_j \in Cells, value \in TauValues :
           /\ colony' = [colony EXCEPT !.graph.tau = set_edge(@, bag_i, bag_j, value)]
           /\ call' = [fn |-> "set_edge", bag_i |-> bag_i, bag_j |-> bag_j,
                       value |-> value]
    /\ calls' = calls + 1
    /\ UNCHANGED <<params, results, pc, iterations, steps>>

\* tau.add_to_edge(bag_i, bag_j, value)
CallAddToEdge ==
    /\ calls < MaxTauCalls
    /\ \E bag_i \in Cells, bag_j \in Cells, value \in TauValues :
           /\ colony' = [colony EXCEPT !.graph.tau = add_to_edge(@, bag_i, bag_j, value)]
           /\ call' = [fn |-> "add_to_edge", bag_i |-> bag_i, bag_j |-> bag_j,
                       value |-> value]
    /\ calls' = calls + 1
    /\ UNCHANGED <<params, results, pc, iterations, steps>>

NextTau == CallSetEdge \/ CallAddToEdge

SpecTau == InitTau /\ [][NextTau]_vars

----------------------------------------------------------------------------
(* Graph::select_path on its own, called as in test::path_selection on a
   graph whose trails have been drawn from a small set *)

\* the problem file of the graph: four bags, so that three can be candidates
SelectProblem ==
    [capacity |-> 10, bags |-> << <<2, 2>>, <<2, 3>>, <<4, 8>>, <<5, 10>> >>]

\* the trail values tried on each edge (0.0 is what evaporation can leave)
SelectTaus == { Zero, <<1, 2>> }

SelectAlphas == {0, 1, 2}

\* the pairs whose cell the Tau uses
TauPairs(nodes) ==
    {e \in (0 .. (nodes - 1)) \X (0 .. (nodes - 1)) : e[1] < e[2]}

\* the lists get_availible_bags can return at bag_i: increasing, without bag_i
CandidateLists(g, bag_i) ==
    { SelectSeq([p \in 1 .. g.nodes |-> p - 1], LAMBDA k : k \in S) :
        S \in (SUBSET ((0 .. (g.nodes - 1)) \ {bag_i})) \ {{}} }

InitSelect ==
    /\ \E trails \in [TauPairs(Len(SelectProblem.bags)) -> SelectTaus] :
           colony = [graph |->
                       [construct_graph(SelectProblem, 2) EXCEPT
                           !.tau = [i \in Cells |-> [j \in Cells |->
                                      IF <<i, j>> \in DOMAIN trails
                                      THEN trails[<<i, j>>] ELSE Zero]]]]
    /\ params \in [alpha : SelectAlphas]
    /\ results = << >>
    /\ pc = "caller"
    /\ iterations = 0
    /\ steps = 0
    /\ calls = 0
    /\ call = NoCall

\* graph.select_path(bag_i, &availible_bags, alpha), called once
CallSelectPath ==
    /\ call = NoCall
    /\ \E bag_i \in 0 .. (colony.graph.nodes - 1) :
         \E availible_bags \in CandidateLists(colony.graph, bag_i) :
           \E wheel \in {create_selection_wheel(colony.graph, bag_i, availible_bags,
                                                 params.alpha)} :
             \E choice \in Choices(wheel) :
               call' = [fn |-> "select_path", bag_i |-> bag_i,
                        availible_bags |-> availible_bags, choice |-> choice,
                        ret |-> select_path(colony.graph, bag_i, availible_bags,
                                            params.alpha, choice)]
    /\ UNCHANGED <<colony, params, results, pc, iterations, steps, calls>>

NextSelect == CallSelectPath

SpecSelect == InitSelect /\ [][NextSelect]_vars

----------------------------------------------------------------------------
(* Graph::construct_graph on its own, on problem files whose entries are
   drawn from a small set; "weight: 0" parses as an f64 like any other *)

\* the <<weight, value>> entries a problem file is made of
LoadEntries == { <<0, 3>>, <<2, 2>>, <<4, 5>> }

LoadCapacities == {8, 10}

LoadBetas == {1, 2}

\* the problem files tried: fewer bags than the matrix has rows
ProblemFiles ==
    UNION { [capacity : LoadCapacities, bags : [1 .. n -> LoadEntries]] :
              n \in 1 .. (BAG_NUMBER - 1) }

\* the file is on disk and no graph has been constructed
InitLoad ==
    /\ colony = << >>
    /\ params \in [file : ProblemFiles, beta : LoadBetas]
    /\ results = << >>
    /\ pc = "load"
    /\ iterations = 0
    /\ steps = 0
    /\ calls = 0
    /\ call = NoCall

\* Graph::construct_graph(beta) returns: load_data has no failing path other
\* than a line that does not parse
CallConstructGraph ==
    /\ pc = "load"
    /\ colony' = [graph |-> construct_graph(params.file, params.beta)]
    /\ pc' = "constructed"
    /\ UNCHANGED <<params, results, iterations, steps, calls, call>>

NextLoad == CallConstructGraph

SpecLoad == InitLoad /\ [][NextLoad]_vars

----------------------------------------------------------------------------
(* Graph::get_availible_bags on its own, with arguments drawn from small
   sets *)

\* the visited lists tried: any list of at most two bags, repeats included
VisitedLists(g) ==
    UNION { [1 .. n -> 0 .. (g.nodes - 1)] : n \in 0 .. 2 }

\* the budgets tried: negative, zero, and around the weights of the bags
AllowedWeights == {-1, 0, 2, 4, 5, 10}

InitBags ==
    /\ \E problem \in BankProblems \cup {SelectProblem} :
           colony = [graph |-> construct_graph(problem, 2)]
    /\ params = << >>
    /\ results = << >>
    /\ pc = "caller"
    /\ iterations = 0
    /\ steps = 0
    /\ calls = 0
    /\ call = NoCall

\* graph.get_availible_bags(current_bag, visited_bags, allowed_weight), called
\* once
CallGetAvailibleBags ==
    /\ call = NoCall
    /\ \E current_bag \in 0 .. (colony.graph.nodes - 1),
          visited_bags \in VisitedLists(colony.graph),
          allowed_weight \in AllowedWeights :
           call' = [fn |-> "get_availible_bags", current_bag |-> current_bag,
                    visited_bags |-> visited_bags, allowed_weight |-> allowed_weight,
                    ret |-> get_availible_bags(colony.graph, current_bag,
                                               visited_bags, allowed_weight)]
    /\ UNCHANGED <<colony, params, results, pc, iterations, steps, calls>>

NextBags == CallGetAvailibleBags

SpecBags == InitBags /\ [][NextBags]_vars

----------------------------------------------------------------------------
(* Colony::new and Graph::evaporation_edges on problems with fewer bags than
   the matrix has rows, as many, and more *)

\* the problem files tried: BAG_NUMBER - 1, BAG_NUMBER and BAG_NUMBER + 1 bags
SizingProblems ==
    { [capacity |-> 10, bags |-> SubSeq(SelectProblem.bags \o << <<1, 1>> >>, 1, n)] :
        n \in (BAG_NUMBER - 1) .. (BAG_NUMBER + 1) }

\* an out-of-bounds test that already fails on a problem that fills the matrix
initialize_tau_panics_when_full(g) == g.nodes >= BAG_NUMBER

\* a write of initialize_tau indexes the matrix out of bounds
\* ("index out of bounds: the len is 100")
initialize_tau_panics(g) ==
    \E e \in TauWrites(g.nodes) : e[1] >= BAG_NUMBER \/ e[2] >= BAG_NUMBER

\* Graph::construct_graph has returned
InitSizing ==
    /\ \E problem \in SizingProblems :
           colony = [graph |-> construct_graph(problem, 2)]
    /\ params \in [evaporation_rate : EvaporationRates]
    /\ results = << >>
    /\ pc = "constructed"
    /\ iterations = 0
    /\ steps = 0
    /\ calls = 0
    /\ call = NoCall

\* Colony::new(graph) returns
CallColonyNew ==
    /\ pc = "constructed"
    /\ ~initialize_tau_panics(colony.graph)
    /\ \E rnd \in [TauWrites(colony.graph.nodes) -> TauInitRange] :
           colony' = ColonyNew(colony.graph, rnd)
    /\ pc' = "created"
    /\ UNCHANGED <<params, results, iterations, steps, calls, call>>

\* Colony::new(graph) panics in initialize_tau: no colony is returned
CallColonyNewPanic ==
    /\ pc = "constructed"
    /\ initialize_tau_panics(colony.graph)
    /\ pc' = "panicked"
    /\ UNCHANGED <<colony, params, results, iterations, steps, calls, call>>

\* colony.graph.evaporation_edges(evaporation_rate)
CallEvaporationEdges ==
    /\ pc = "created"
    /\ colony' = [colony EXCEPT
                    !.graph = evaporation_edges(@, params.evaporation_rate)]
    /\ pc' = "evaporated"
    /\ UNCHANGED <<params, results, iterations, steps, calls, call>>

NextSizing == CallColonyNew \/ CallColonyNewPanic \/ CallEvaporationEdges

SpecSizing == InitSizing /\ [][NextSizing]_vars

----------------------------------------------------------------------------
(* Properties *)

\* the bags of a tour
Bags(tour) == {tour[p] : p \in 1 .. Len(tour)}

NoDuplicates(tour) == Cardinality(Bags(tour)) = Len(tour)

\* an ant that still has a bag it can move to
Active(ant) ==
    \E k \in 0 .. (colony.graph.nodes - 1) :
        /\ k \notin Bags(ant.tour)
        /\ colony.graph.graph[k].weight <= colony.graph.max_weight - ant.current_weight

AllTerminal == \A k \in 1 .. Len(colony.ants) : ~Active(colony.ants[k])

\* an ant with two or more bags to move to whose edge weights sum to zero
Degenerate(ant) ==
    /\ Len(ant_availible_bags(ant, colony.graph)) >= 2
    /\ \A p \in 1 .. Len(ant_availible_bags(ant, colony.graph)) :
           edge_weight(colony.graph, ant.current_bag,
                       ant_availible_bags(ant, colony.graph)[p], params.alpha) = Zero

\* C1: the recorded best cost never decreases from one state to the next, and
\* the best path is replaced only by one of strictly higher cost.
C1_BestNeverRegresses ==
    [][/\ colony'.best_path[2] >= colony.best_path[2]
       /\ colony'.best_path # colony.best_path
            => colony'.best_path[2] > colony.best_path[2]]_vars

\* C2: every ant's weight is within the capacity, from its birth on.
C2_WeightWithinCapacity ==
    \A k \in 1 .. Len(colony.ants) :
        colony.ants[k].current_weight <= colony.graph.max_weight

\* a step of run_tours appends to each tour at most one bag, which is neither
\* the ant's current bag nor a bag of its tour
AppendsFresh ==
    (pc = "run_tours" /\ pc' = "run_tours") =>
        \A k \in 1 .. Len(colony.ants) :
            \/ colony'.ants[k] = colony.ants[k]
            \/ \E b \in 0 .. (colony.graph.nodes - 1) :
                   /\ colony'.ants[k].tour = Append(colony.ants[k].tour, b)
                   /\ b # colony.ants[k].current_bag
                   /\ b \notin Bags(colony.ants[k].tour)

\* C3: no bag appears twice in an ant's tour or in the best tour, and every
\* bag appended in a time step is neither the current bag nor already toured.
C3_NoDuplicates ==
    /\ [](/\ \A k \in 1 .. Len(colony.ants) : NoDuplicates(colony.ants[k].tour)
          /\ NoDuplicates(colony.best_path[1]))
    /\ [][AppendsFresh]_vars

\* an ant built a tour of three bags: its last choice had visited bags to avoid
C3_Witness ==
    /\ \E k \in 1 .. Len(colony.ants) : Len(colony.ants[k].tour) = 3
    /\ Len(colony.best_path[1]) = 3

\* C4: after as many time steps as there are bags, every tour is finished.
C4_ConstructionTerminates ==
    (pc = "run_tours" /\ steps >= colony.graph.nodes) => AllTerminal

\* C5: an ant whose selection is degenerate counts as finished: when every ant
\* either has no bag to move to or is degenerate, the construction is over.
C5_DegenerateIsDeadEnd ==
    (\A k \in 1 .. Len(colony.ants) :
        ~Active(colony.ants[k]) \/ Degenerate(colony.ants[k]))
    => are_all_tours_finished(colony)

\* C6: the evaluation counter is the number of completed iterations times the
\* population size (0 before the first), so each iteration adds exactly N.
C6_EvaluationCounter ==
    colony.num_of_fitness_evaluations = iterations * params.num_of_ants

\* the second iteration of a population of two is evaluated
C6_Witness ==
    /\ params.num_of_ants = 2
    /\ iterations = 2
    /\ colony.num_of_fitness_evaluations = 4

\* ceil(fitness_evals / num_of_ants), at least 1
IterationsDue ==
    LET due == (params.fitness_evals + params.num_of_ants - 1) \div params.num_of_ants
    IN  IF due < 1 THEN 1 ELSE due

\* C7: run returns after exactly max(1, ceil(B / N)) iterations with the counter
\* at B or more, and it never has more iterations behind it than that.
C7_RunLoopBudget ==
    /\ iterations <= IterationsDue
    /\ pc = "done" =>
          /\ iterations = IterationsDue
          /\ colony.num_of_fitness_evaluations >= params.fitness_evals
          /\ Len(colony.ants) = params.num_of_ants

\* run returned after three iterations of one ant each
C7_Witness ==
    /\ pc = "done"
    /\ params.num_of_ants = 1
    /\ params.fitness_evals = 3
    /\ iterations = 3

\* C8: the trail store changes only in a step that starts with every ant
\* terminal; a time step leaves it as it is.
C8_ToursCompleteBeforeUpdate ==
    [][colony'.graph.tau # colony.graph.tau => AllTerminal]_vars

\* the trails were updated after an ant had built a tour of two bags or more
C8_Witness ==
    /\ pc = "loop"
    /\ \E k \in 1 .. Len(colony.ants) : Len(colony.ants[k].tour) >= 2
    /\ \E i, j \in Cells : colony.graph.tau[i][j] \notin TauInitRange \cup {Zero}

\* C9: update_edges panics only when an ant is still active, the panic leaves
\* the colony (trails, counter, best path, ants) as it was before the call, and
\* no call on a colony with an active ant changes trails, counter or best path.
C9_PanicChangesNothing ==
    [][/\ pc' = "panicked" => (~AllTerminal /\ colony' = colony)
       /\ (~AllTerminal /\ colony'.ants = colony.ants) => colony' = colony]_vars

\* update_edges panicked on a colony with an active ant
C9_Witness ==
    /\ pc = "panicked"
    /\ ~AllTerminal

RECURSIVE SetSum(_, _)
SetSum(S, field) ==
    IF S = {} THEN 0
    ELSE LET k == CHOOSE x \in S : TRUE
         IN  colony.graph.graph[k][field] + SetSum(S \ {k}, field)

\* the sets of bags that fit in the van together
Feasible ==
    {S \in SUBSET (0 .. (colony.graph.nodes - 1)) :
        SetSum(S, "weight") <= colony.graph.max_weight}

\* the bags that do not fit in the van even alone
TooHeavy ==
    {k \in 0 .. (colony.graph.nodes - 1) :
        colony.graph.graph[k].weight > colony.graph.max_weight}

\* C10: the best cost is the cost of bags that fit in the van together, at
\* most, and a bag too heavy for the van is in no tour.
C10_BestIsFeasible ==
    /\ \E S \in Feasible : colony.best_path[2] <= SetSum(S, "cost")
    /\ \A k \in 1 .. Len(colony.ants) : Bags(colony.ants[k].tour) \cap TooHeavy = {}
    /\ Bags(colony.best_path[1]) \cap TooHeavy = {}

----------------------------------------------------------------------------
(* Claims about the functions of graph/mod.rs *)

\* C11: the trail store is symmetric: for any two distinct ids get_edge(i, j)
\* equals get_edge(j, i); after set_edge(i, j, v) both orders read v, and
\* after add_to_edge(i, j, d) both orders read d more than before.
C11_TrailSymmetric ==
    /\ [](\A i \in Cells, j \in Cells :
            i # j => get_edge(colony.graph.tau, i, j) = get_edge(colony.graph.tau, j, i))
    /\ [][LET i == call'.bag_i
              j == call'.bag_j
              old == colony.graph.tau
              new == colony'.graph.tau
          IN  /\ (call'.fn = "set_edge" /\ i # j) =>
                    /\ get_edge(new, i, j) = call'.value
                    /\ get_edge(new, j, i) = call'.value
              /\ (call'.fn = "add_to_edge" /\ i # j) =>
                    /\ get_edge(new, i, j) = F64Add(get_edge(old, i, j), call'.value)
                    /\ get_edge(new, j, i) = F64Add(get_edge(old, j, i), call'.value)]_vars

\* an edge set in one order and added to in the other reads the sum both ways
C11_Witness ==
    /\ call.fn = "add_to_edge"
    /\ call.bag_i > call.bag_j
    /\ get_edge(colony.graph.tau, call.bag_j, call.bag_i) = <<3, 4>>
    /\ get_edge(colony.graph.tau, call.bag_i, call.bag_j) = <<3, 4>>

\* C12: when exactly one candidate remains select_path returns it, whatever
\* the trail value (zero included), the exponent alpha and the random draw.
C12_SingleCandidateShortcut ==
    (call.fn = "select_path" /\ Len(call.availible_bags) = 1)
        => call.ret = Some(call.availible_bags[1])

\* the only candidate is returned over a zero trail raised to alpha = 2
C12_Witness ==
    /\ call.fn = "select_path"
    /\ Len(call.availible_bags) = 1
    /\ get_edge(colony.graph.tau, call.bag_i, call.availible_bags[1]) = Zero
    /\ params.alpha = 2
    /\ call.choice = One
    /\ call.ret = Some(call.availible_bags[1])

\* tau^alpha * h of the p-th candidate of the last call
CandidateWeight(p) ==
    F64Mul(F64Pow(get_edge(colony.graph.tau, call.bag_i, call.availible_bags[p]),
                  params.alpha),
           colony.graph.graph[call.availible_bags[p]].h)

\* the sum of the weights of the first p candidates
RECURSIVE WeightUpTo(_)
WeightUpTo(p) == IF p = 0 THEN Zero ELSE F64Add(WeightUpTo(p - 1), CandidateWeight(p))

\* the draw falls at or below the cumulative share of the first p candidates
DrawReached(p) ==
    F64Le(call.choice,
          F64Div(WeightUpTo(p), WeightUpTo(Len(call.availible_bags))))

\* C18: with two or more candidates select_path returns the first candidate,
\* in list order, whose cumulative share of the total weight tau^alpha * h is
\* at least the draw (and nothing when no share reaches it); what it returns
\* is always one of the candidates.
C18_RouletteRule ==
    (call.fn = "select_path" /\ Len(call.availible_bags) >= 2) =>
        LET reached == {p \in 1 .. Len(call.availible_bags) : DrawReached(p)}
        IN  /\ reached # {} =>
                  \E p \in reached :
                      /\ \A q \in reached : p <= q
                      /\ call.ret = Some(call.availible_bags[p])
            /\ reached = {} => call.ret = None
            /\ call.ret # None => call.ret[1] \in Bags(call.availible_bags)

\* of three candidates the second is returned: the draw lies above the first
\* cumulative share and not above the second
C18_Witness ==
    /\ call.fn = "select_path"
    /\ Len(call.availible_bags) = 3
    /\ call.ret = Some(call.availible_bags[2])
    /\ ~DrawReached(1)
    /\ DrawReached(2)
    /\ call.choice # One

----------------------------------------------------------------------------
(* Claims about update_edges *)

\* the <<ant, position>> at which bags i and j are consecutive in a tour
Crossings(i, j) ==
    {x \in (1 .. Len(colony.ants)) \X (1 .. BAG_NUMBER) :
        /\ x[2] < Len(colony.ants[x[1]].tour)
        /\ {colony.ants[x[1]].tour[x[2]], colony.ants[x[1]].tour[x[2] + 1]} = {i, j}}

\* the sum over a set of crossings of cost_sum * p_rate / weight_sum of the ant
RECURSIVE DepositSum(_)
DepositSum(S) ==
    IF S = {} THEN Zero
    ELSE LET x == CHOOSE y \in S : TRUE
             ant == colony.ants[x[1]]
         IN  F64Add(F64Div(F64Mul(F64(ant.current_cost), params.p_rate),
                           F64(ant.current_weight)),
                    DepositSum(S \ {x}))

\* update_edges has returned in this step
Updated == iterations' = iterations + 1

\* C13: one update_edges multiplies the trail of every pair by exactly
\* evaporation_rate, once, before the deposits of the iteration are added:
\* new = old * evaporation_rate + deposits.
C13_EvaporatesOnce ==
    [][Updated =>
        \A i \in Cells, j \in Cells :
            i < j =>
                get_edge(colony'.graph.tau, i, j) =
                    F64Add(F64Mul(get_edge(colony.graph.tau, i, j), params.evaporation_rate),
                           DepositSum(Crossings(i, j)))]_vars

\* C16: after evaporation, update_edges adds to the trail of each pair {i, j}
\* the sum, over every ant and every position where i and j are consecutive
\* in its tour in either order, of (tour_cost * p_rate) / tour_weight; a pair
\* consecutive in no tour and an ant with a one-item tour add nothing.
C16_DepositRule ==
    [][Updated =>
        \E evaporated \in {evaporation_edges(colony.graph, params.evaporation_rate).tau} :
            \A i \in Cells, j \in Cells :
                i < j =>
                    get_edge(colony'.graph.tau, i, j) =
                        F64Add(get_edge(evaporated, i, j), DepositSum(Crossings(i, j)))]_vars

\* update_edges has returned on two ants that crossed the same pair in
\* opposite orders, and the pair holds both deposits
C16_Witness ==
    /\ pc = "loop"
    /\ Len(colony.ants) = 2
    /\ \E i \in Cells, j \in Cells :
           /\ i < j
           /\ Cardinality(Crossings(i, j)) = 2
           /\ colony.ants[1].tour[1] = i
           /\ colony.ants[2].tour[1] = j
           /\ F64Le(DepositSum(Crossings(i, j)), get_edge(colony.graph.tau, i, j))
           /\ DepositSum(Crossings(i, j)) # Zero

----------------------------------------------------------------------------
(* Claims about run *)

ScoreKeys == {"initial_score", "initial_avg", "final_score", "final_avg"}

\* the sum of the cost_sum of the first k ants of the population
RECURSIVE CostOfFirst(_)
CostOfFirst(k) ==
    IF k = 0 THEN 0 ELSE CostOfFirst(k - 1) + colony.ants[k].current_cost

\* the text of the recorded best cost and of the population's average cost
BestText == to_string(F64(colony.best_path[2]))

AverageText ==
    to_string(F64Div(F64(CostOfFirst(Len(colony.ants))), F64(Len(colony.ants))))

\* C14 as stated: the value run returns holds the four scores and, under a
\* further key, the best tour as the ordered list of its item ids.
C14_ResultHoldsBestTour ==
    pc = "done" =>
        /\ ScoreKeys \subseteq DOMAIN results
        /\ \E key \in DOMAIN results \ ScoreKeys : results[key] = colony.best_path[1]

\* C14, amended: the value run returns holds exactly four entries: the best
\* cost and the average cost recorded after the bootstrap iteration and never
\* rewritten, and the cost of best_path and the average cost of the
\* population after the last iteration; the best tour is not in it.
C14_ResultRecord ==
    /\ []((pc = "loop" /\ iterations = 1) =>
              /\ DOMAIN results = {"initial_score", "initial_avg"}
              /\ results["initial_score"] = BestText
              /\ results["initial_avg"] = AverageText)
    /\ [](pc = "done" =>
              /\ DOMAIN results = ScoreKeys
              /\ results["final_score"] = BestText
              /\ results["final_avg"] = AverageText)
    /\ [][iterations >= 1 =>
            /\ results'["initial_score"] = results["initial_score"]
            /\ results'["initial_avg"] = results["initial_avg"]]_vars

\* run has returned after more than one iteration with final scores that
\* differ from the initial ones
C14_Witness ==
    /\ pc = "done"
    /\ iterations >= 2
    /\ results["final_score"] # results["initial_score"]
    /\ results["final_avg"] # results["initial_avg"]
    /\ results["final_avg"] # results["final_score"]

----------------------------------------------------------------------------
(* Claims about load_data *)

\* C15: a problem in which an item has a non-positive weight is not loaded:
\* no constructed graph holds an item of weight <= 0, nor a desirability
\* computed by dividing by such a weight.
C15_NoNonPositiveWeight ==
    pc = "constructed" =>
        \A k \in DOMAIN colony.graph.graph :
            /\ colony.graph.graph[k].weight > 0
            /\ colony.graph.graph[k].h # Inf

----------------------------------------------------------------------------
(* Claims about get_availible_bags *)

\* the bags that qualify for the last call: not the current bag, not in the
\* visited list, and no heavier than the budget
Qualifying ==
    {k \in 0 .. (colony.graph.nodes - 1) :
        /\ k # call.current_bag
        /\ k \notin {call.visited_bags[p] : p \in DOMAIN call.visited_bags}
        /\ colony.graph.graph[k].weight <= call.allowed_weight}

\* C17: get_availible_bags returns exactly the indices k with k # current,
\* k not in the visited list and weight(k) <= budget, in increasing order,
\* and the empty list when none qualifies (a negative budget included).
C17_FeasibleSuccessors ==
    call.fn = "get_availible_bags" =>
        /\ {call.ret[p] : p \in DOMAIN call.ret} = Qualifying
        /\ \A p \in DOMAIN call.ret, q \in DOMAIN call.ret :
               p < q => call.ret[p] < call.ret[q]
        /\ Qualifying = {} => call.ret = << >>

\* two bags are returned while a third, neither current nor visited, is left
\* out for its weight alone, and one returned bag weighs exactly the budget
C17_Witness ==
    /\ call.fn = "get_availible_bags"
    /\ Len(call.ret) = 2
    /\ Len(call.visited_bags) >= 1
    /\ colony.graph.graph[call.ret[2]].weight = call.allowed_weight
    /\ \E k \in 0 .. (colony.graph.nodes - 1) :
           /\ k # call.current_bag
           /\ k \notin {call.visited_bags[p] : p \in DOMAIN call.visited_bags}
           /\ colony.graph.graph[k].weight > call.allowed_weight

----------------------------------------------------------------------------
(* Claims about set_best_tour and time_step *)

\* C19: when set_best_tour succeeds, the ant it records has a cost_sum equal
\* to the highest cost_sum of the population, no ant costing more.
C19_BestOfIteration ==
    [][Updated =>
        /\ \A k \in 1 .. Len(colony.ants) :
               colony.ants[k].current_cost <= colony'.best_path[2]
        /\ \E k \in 1 .. Len(colony.ants) :
               colony'.best_path = <<colony.ants[k].tour, colony.ants[k].current_cost,
                                     colony.ants[k].current_weight>>]_vars

\* the first of two ants costs more than the second, and it is the one recorded
C19_Witness ==
    /\ pc = "loop"
    /\ Len(colony.ants) = 2
    /\ colony.ants[1].current_cost > colony.ants[2].current_cost
    /\ colony.best_path[1] = colony.ants[1].tour
    /\ colony.best_path[2] = colony.ants[1].current_cost

\* C20: in every time_step each ant that is Active at the start of the step
\* has exactly one item appended to its tour, and its current item, cost_sum
\* and weight_sum are updated by that item's values.
C20_OneItemPerStep ==
    [][steps' = steps + 1 =>
        \A k \in 1 .. Len(colony.ants) :
            Active(colony.ants[k]) =>
                LET old == colony.ants[k]
                    new == colony'.ants[k]
                    bag == new.tour[Len(new.tour)]
                IN  /\ Len(new.tour) = Len(old.tour) + 1
                    /\ SubSeq(new.tour, 1, Len(old.tour)) = old.tour
                    /\ new.current_bag = bag
                    /\ new.current_cost = old.current_cost + colony.graph.graph[bag].cost
                    /\ new.current_weight =
                          old.current_weight + colony.graph.graph[bag].weight]_vars

----------------------------------------------------------------------------
(* Claims about the population *)

\* run is about to construct the tours of an iteration
ConstructionBegins == pc = "run_tours" /\ steps = 0

\* C21: every iteration of run, the bootstrap included, begins construction
\* with exactly N ants, each freshly born: its tour is its starting item alone,
\* an index below the item count, and its totals are those of that item; no
\* ant of the previous iteration is left.
C21_Repopulate ==
    ConstructionBegins =>
        /\ Len(colony.ants) = params.num_of_ants
        /\ \A k \in 1 .. Len(colony.ants) :
               /\ Len(colony.ants[k].tour) = 1
               /\ colony.ants[k].tour[1] \in 0 .. (colony.graph.nodes - 1)
               /\ colony.ants[k].current_bag = colony.ants[k].tour[1]
               /\ colony.ants[k].current_cost =
                     colony.graph.graph[colony.ants[k].tour[1]].cost
               /\ colony.ants[k].current_weight =
                     colony.graph.graph[colony.ants[k].tour[1]].weight

\* a later iteration begins with two ants born at the same item, after an
\* iteration whose best tour had more than one item
C21_Witness ==
    /\ ConstructionBegins
    /\ iterations >= 1
    /\ Len(colony.ants) = 2
    /\ colony.ants[1].tour = colony.ants[2].tour
    /\ Len(colony.best_path[1]) >= 2

----------------------------------------------------------------------------
(* Claims about the trails of the colony *)

\* a value of the half-open range 0.1..1.0
InInitRange(x) == F64Le(<<1, 10>>, x) /\ ~F64Le(One, x)

\* C22: after colony creation, and until the first update, every pair of
\* distinct items of the problem has a trail in [0.1, 1.0), read in either
\* order, and every self-pair has the value 0.
C22_TrailInitialization ==
    iterations = 0 =>
        \A i \in 0 .. (colony.graph.nodes - 1), j \in 0 .. (colony.graph.nodes - 1) :
            IF i # j
            THEN InInitRange(get_edge(colony.graph.tau, i, j))
            ELSE colony.graph.tau[i][i] = Zero

\* a colony has just been created with different values on different pairs
C22_Witness ==
    /\ iterations = 0
    /\ steps = 0
    /\ pc = "run_tours"
    /\ get_edge(colony.graph.tau, 1, 0) = <<1, 4>>
    /\ get_edge(colony.graph.tau, 2, 0) = <<1, 2>>
    /\ get_edge(colony.graph.tau, 2, 1) = <<1, 4>>

\* C23: with evaporation_rate >= 0, p_rate >= 0 and items of positive weight
\* and cost, every trail value, in every cell of the matrix, is >= 0 (and so
\* not NaN) after any number of iterations.
C23_TrailsNonNegative ==
    \A i \in Cells, j \in Cells : F64Le(Zero, colony.graph.tau[i][j])

\* after two iterations at rate 0.5 one trail has grown past its initial range
\* by deposits while another has only evaporated
C23_Witness ==
    /\ iterations >= 2
    /\ params.evaporation_rate = <<1, 2>>
    /\ \E i \in Cells, j \in Cells : F64Le(One, colony.graph.tau[i][j])
    /\ \E i \in Cells, j \in Cells :
           /\ i < j
           /\ j < colony.graph.nodes
           /\ colony.graph.tau[i][j] # Zero
           /\ ~F64Le(<<1, 10>>, colony.graph.tau[i][j])

----------------------------------------------------------------------------
(* Claims about the size of the problem *)

\* every pair of distinct items of the problem holds an initial trail
AllPairsInitialized ==
    \A i \in 0 .. (colony.graph.nodes - 1), j \in 0 .. (colony.graph.nodes - 1) :
        i # j => InInitRange(get_edge(colony.graph.tau, i, j))

----------------------------------------------------------------------------
(* Claims about the totals kept by the ants and the colony *)

\* the sum of a field over the items at the positions 1 .. p of a tour
RECURSIVE TotalUpTo(_, _, _)
TotalUpTo(tour, field, p) ==
    IF p = 0 THEN 0
    ELSE TotalUpTo(tour, field, p - 1) + colony.graph.graph[tour[p]][field]

\* C25: for every ant, in every state, the tour is non-empty, current_bag is
\* its last element, and current_cost and current_weight are the sums of the
\* costs and weights of the tour's items, the same values calculate_tour_cost
\* and calcluate_tour_weight recompute for the deposit.
C25_TotalsExact ==
    \A k \in 1 .. Len(colony.ants) :
        LET ant == colony.ants[k]
        IN  /\ ant.tour # << >>
            /\ ant.current_bag = ant.tour[Len(ant.tour)]
            /\ ant.current_cost = TotalUpTo(ant.tour, "cost", Len(ant.tour))
            /\ ant.current_weight = TotalUpTo(ant.tour, "weight", Len(ant.tour))
            /\ ant.current_cost = calculate_tour_cost(ant, colony.graph)
            /\ ant.current_weight = calcluate_tour_weight(ant, colony.graph)

\* an ant has moved twice over items of different costs
C25_Witness ==
    \E k \in 1 .. Len(colony.ants) :
        /\ Len(colony.ants[k].tour) = 3
        /\ colony.graph.graph[colony.ants[k].tour[1]].cost
             # colony.graph.graph[colony.ants[k].tour[2]].cost
        /\ colony.ants[k].current_cost = 13

\* C26: before any evaluation the best record is the empty tour with cost 0
\* and weight 0; after a successful set_best_tour its cost and weight are the
\* sums of the costs and weights of the items of its tour.
C26_BestRecordConsistent ==
    IF colony.num_of_fitness_evaluations = 0
    THEN colony.best_path = << << >>, 0, 0 >>
    ELSE /\ colony.best_path[1] # << >>
         /\ colony.best_path[2] =
               TotalUpTo(colony.best_path[1], "cost", Len(colony.best_path[1]))
         /\ colony.best_path[3] =
               TotalUpTo(colony.best_path[1], "weight", Len(colony.best_path[1]))

\* the best record is the tour of the second of two ants, of a weight other
\* than the first ant's
C26_Witness ==
    /\ colony.num_of_fitness_evaluations >= 2
    /\ Len(colony.ants) = 2
    /\ Len(colony.ants[1].tour) >= 2
    /\ colony.best_path[1] = colony.ants[2].tour
    /\ colony.best_path[3] # colony.ants[1].current_weight

\* C27: an ant with no feasible successor is left as it is by every
\* time_step: tour, current item, cost_sum and weight_sum are unchanged, and
\* it has no feasible successor afterwards either.
C27_TerminalIsAbsorbing ==
    [][steps' = steps + 1 =>
        \A k \in 1 .. Len(colony.ants) :
            ~Active(colony.ants[k]) =>
                /\ colony'.ants[k] = colony.ants[k]
                /\ ~(Active(colony.ants[k]))']_vars

\* the first ant became terminal on its second item at the first time_step
\* and a second time_step has passed over it, the second ant still having a
\* feasible successor
C27_Witness ==
    /\ pc = "run_tours"
    /\ steps >= 2
    /\ Len(colony.ants) = 2
    /\ Len(colony.ants[1].tour) = 2
    /\ ~Active(colony.ants[1])
    /\ Active(colony.ants[2])

----------------------------------------------------------------------------
(* Claims about the draw of select_path *)

\* the position of a bag in the candidate list of the last call
PositionOf(bag) ==
    CHOOSE p \in 1 .. Len(call.availible_bags) : call.availible_bags[p] = bag

\* C28: with two or more candidates of which at least one has a positive
\* selection weight tau^alpha * h, select_path never returns a candidate whose
\* selection weight is zero, for any draw of [0, 1], a draw of exactly 0
\* included.
C28_ZeroWeightNotChosen ==
    (/\ call.fn = "select_path"
     /\ Len(call.availible_bags) >= 2
     /\ \E p \in 1 .. Len(call.availible_bags) : CandidateWeight(p) # Zero
     /\ call.ret # None)
        => CandidateWeight(PositionOf(call.ret[1])) # Zero

----------------------------------------------------------------------------
(* Claims about the storage of the trail matrix *)

\* C29: in every state reached through colony creation and any number of
\* iterations, every cell of the trail matrix with row >= column (the
\* self-pairs and the lower triangle) holds 0; only cells with row < column
\* hold trail values.
C29_CanonicalStorage ==
    \A i \in Cells : \A j \in Cells :
        i >= j => colony.graph.tau[i][j] = Zero

\* an iteration has evaporated and deposited, and the upper triangle holds
\* trails
C29_Witness ==
    /\ iterations >= 1
    /\ pc = "run_tours"
    /\ \E i \in Cells : \E j \in Cells :
        /\ i < j
        /\ colony.graph.tau[i][j] # Zero
        /\ ~InInitRange(colony.graph.tau[i][j])

====
